---- MODULE Spec2Model ----
(***************************************************************************)
(* Recency contribution matrix: the last-purchase reducer (load_base.py)   *)
(* and the contribution aggregator / multi-metric builder                  *)
(* (recency_contribution.py) as operators over tables, and one             *)
(* specification per entry point that draws the inputs and applies it.     *)
(*                                                                         *)
(* Representation.                                                         *)
(*  - A text cell (customer code, category, label) is the sequence of its  *)
(*    Unicode code points, so trimming, concatenation and the ordering of  *)
(*    group keys are computed on the real strings.  NaN is the missing     *)
(*    cell.                                                                *)
(*  - A column name is a transliterated string (schema only).              *)
(*  - A data frame is [cols |-> set of column names, rows |-> sequence of  *)
(*    rows], a row being a function from the column names to cells.        *)
(*  - pct is held in tenths of a percent (33.3 is 333): round(x, 1) is     *)
(*    the nearest tenth, ties to the even tenth.                           *)
(***************************************************************************)
EXTENDS Integers, Sequences, FiniteSets, TLC

(***************************************************************************)
(* Bounds of the model.                                                    *)
(***************************************************************************)
MaxRecs == 2
MaxRows == 2
MaxAggRows == 2
MaxFilterRows == 2
MaxCalls == 3

(***************************************************************************)
(* Column names and labels.                                                *)
(***************************************************************************)
COL_GROUP == "Gruppa1"
COL_DATE == "Data"
COL_CLIENTS == "Klientov"
COL_CLIENT_CODE == "Kod klienta"
COL_LAST_DATE == "last_purchase_date"

UPLOAD_COL_SALES == "Prodazhi"
UPLOAD_COL_RECEIPTS == "Kolichestvo chekov"
UPLOAD_COL_ITEMS == "Kolichestvo tovar"
UPLOAD_REQUIRED_COLUMNS ==
    {COL_GROUP, UPLOAD_COL_SALES, UPLOAD_COL_RECEIPTS, UPLOAD_COL_ITEMS, COL_CLIENT_CODE}

\* "Клиенты без БК"
LABEL_NO_BONUS_CARD ==
    <<1050, 1083, 1080, 1077, 1085, 1090, 1099, 32, 1073, 1077, 1079, 32, 1041, 1050>>
\* "Новые клиенты"
LABEL_NEW_CLIENTS ==
    <<1053, 1086, 1074, 1099, 1077, 32, 1082, 1083, 1080, 1077, 1085, 1090, 1099>>

CATEGORY_COLUMNS == <<"Gruppa1", "Gruppa2", "Gruppa3", "Gruppa4", "Tovar">>

\* Январь .. Декабрь
MONTH_NAMES ==
    << <<1071, 1085, 1074, 1072, 1088, 1100>>,
       <<1060, 1077, 1074, 1088, 1072, 1083, 1100>>,
       <<1052, 1072, 1088, 1090>>,
       <<1040, 1087, 1088, 1077, 1083, 1100>>,
       <<1052, 1072, 1081>>,
       <<1048, 1102, 1085, 1100>>,
       <<1048, 1102, 1083, 1100>>,
       <<1040, 1074, 1075, 1091, 1089, 1090>>,
       <<1057, 1077, 1085, 1090, 1103, 1073, 1088, 1100>>,
       <<1054, 1082, 1090, 1103, 1073, 1088, 1100>>,
       <<1053, 1086, 1103, 1073, 1088, 1100>>,
       <<1044, 1077, 1082, 1072, 1073, 1088, 1100>> >>

(***************************************************************************)
(* Cells: text, missing values, dates.                                     *)
(***************************************************************************)
\* The missing text cell (NaN / None): no code point is negative.
NaN == <<-1>>

isna(x) == x = NaN

\* str.isspace for one code point (space, tab, LF, VT, FF, CR).
IsSpace(c) == c = 32 \/ (c >= 9 /\ c <= 13)

RECURSIVE lstrip(_)
lstrip(s) == IF s # <<>> /\ IsSpace(Head(s)) THEN lstrip(Tail(s)) ELSE s

RECURSIVE rstrip(_)
rstrip(s) ==
    IF s # <<>> /\ IsSpace(s[Len(s)]) THEN rstrip(SubSeq(s, 1, Len(s) - 1)) ELSE s

\* str.strip()
strip(s) == rstrip(lstrip(s))

\* astype(str) / str(x) of a text cell: the missing cell reads "nan".
astype_str(x) == IF isna(x) THEN <<110, 97, 110>> ELSE x

\* Decimal digits of a natural number as code points.
RECURSIVE Digits(_)
Digits(n) == IF n < 10 THEN <<48 + n>> ELSE Digits(n \div 10) \o <<48 + (n % 10)>>

\* Python's ordering of two strings (by code point, a proper prefix first).
RECURSIVE StrLess(_, _)
StrLess(a, b) ==
    IF b = <<>> THEN FALSE
    ELSE IF a = <<>> THEN TRUE
    ELSE IF Head(a) # Head(b) THEN Head(a) < Head(b)
    ELSE StrLess(Tail(a), Tail(b))

\* A timestamp cell; NaT is the missing one.  A raw cell of the Excel sheet is a
\* timestamp, a text "f1.f2.f3", junk text or empty.
Ts(y, m, d) == [kind |-> "ts", y |-> y, m |-> m, d |-> d]
NaT == [kind |-> "nat", y |-> 0, m |-> 0, d |-> 0]
DateText(f1, f2, f3) == [kind |-> "text", y |-> f3, m |-> f2, d |-> f1]
JunkText == [kind |-> "junk", y |-> 0, m |-> 0, d |-> 0]

DateLess(a, b) ==
    \/ a.y < b.y
    \/ a.y = b.y /\ a.m < b.m
    \/ a.y = b.y /\ a.m = b.m /\ a.d < b.d

DaysIn(y, m) ==
    IF m \in {4, 6, 9, 11} THEN 30
    ELSE IF m # 2 THEN 31
    ELSE IF (y % 4 = 0 /\ y % 100 # 0) \/ y % 400 = 0 THEN 29 ELSE 28

\* pd.to_datetime(cell, dayfirst=True, errors="coerce") on one cell.
_parse_date(c) ==
    IF c.kind = "ts" THEN c
    ELSE IF c.kind = "text" /\ c.m >= 1 /\ c.m <= 12 /\ c.d >= 1 /\ c.d <= DaysIn(c.y, c.m)
         THEN Ts(c.y, c.m, c.d)
    ELSE NaT

(***************************************************************************)
(* Sequence helpers standing for the pandas primitives.                    *)
(***************************************************************************)
\* df[mask]: the rows whose position is in the mask I, in order.
Mask(rows, I) ==
    LET F[i \in 0..Len(rows)] ==
            IF i = 0 THEN <<>>
            ELSE IF i \in I THEN Append(F[i - 1], rows[i]) ELSE F[i - 1]
    IN F[Len(rows)]

\* Series.sum() of column col.
RECURSIVE SumOf(_, _)
SumOf(rows, col) ==
    IF rows = <<>> THEN 0 ELSE Head(rows)[col] + SumOf(Tail(rows), col)

\* The values of column col.
ColSet(rows, col) == {rows[i][col] : i \in 1..Len(rows)}

\* Series.unique(): the distinct values in order of first appearance.
RECURSIVE unique(_, _)
unique(rows, col) ==
    IF rows = <<>> THEN <<>>
    ELSE LET init == SubSeq(rows, 1, Len(rows) - 1)
             x == rows[Len(rows)][col]
         IN IF x \in ColSet(init, col) THEN unique(init, col)
            ELSE unique(init, col) \o <<x>>

\* The group keys in the order groupby(sort=True) yields them.
RECURSIVE SortedKeys(_)
SortedKeys(S) ==
    IF S = {} THEN <<>>
    ELSE LET k == CHOOSE x \in S : \A z \in S \ {x} : StrLess(x, z)
         IN <<k>> \o SortedKeys(S \ {k})

\* The largest date of a non-empty set of timestamps.
MaxDate(S) == CHOOSE x \in S : \A z \in S : ~DateLess(x, z)

\* A frame; pd.DataFrame() has neither columns nor rows.
Frame(cols, rows) == [cols |-> cols, rows |-> rows]
EmptyFrame == Frame({}, <<>>)
None == Frame({"<None>"}, <<>>)

\* row with column col set to v (df[col] = ... on one row).
WithCol(row, col, v) ==
    [c \in DOMAIN row \cup {col} |-> IF c = col THEN v ELSE row[c]]

\* df[cols] on one row.
Project(row, cols) == [c \in cols |-> row[c]]

(***************************************************************************)
(* load_base.py: the last-purchase reducer.                                *)
(***************************************************************************)
\* load_base_excel on the sheet already read: None when a needed column is
\* absent, else the rows with the date parsed and the rows lacking a date or
\* a customer code dropped.
load_base_excel(sheet) ==
    LET needed == {COL_GROUP, COL_DATE, COL_CLIENTS, COL_CLIENT_CODE}
        parsed == [i \in 1..Len(sheet.rows) |->
                     WithCol(sheet.rows[i], COL_DATE, _parse_date(sheet.rows[i][COL_DATE]))]
        kept == {i \in 1..Len(parsed) :
                     parsed[i][COL_DATE] # NaT /\ ~isna(parsed[i][COL_CLIENT_CODE])}
    IN IF ~(needed \subseteq sheet.cols) THEN None
       ELSE Frame(sheet.cols, Mask(parsed, kept))

\* scan_base over the sheets of the folder: the loaded, non-empty frames
\* concatenated; pd.DataFrame() when there is none.
RECURSIVE scan_base(_)
scan_base(sheets) ==
    IF sheets = <<>> THEN EmptyFrame
    ELSE LET df == load_base_excel(Head(sheets))
             rest == scan_base(Tail(sheets))
         IN IF df = None \/ df.rows = <<>> THEN rest
            ELSE Frame(df.cols \cup rest.cols, df.rows \o rest.rows)

\* sort_values(COL_DATE): ascending by date.  The default sort (quicksort) is
\* not stable, so where rows of equal date end up depends on the numpy build:
\* ties "stable" keeps them in input order, "reversed" turns them around.
RECURSIVE sort_values_by_date(_, _)
sort_values_by_date(rows, ties) ==
    IF rows = <<>> THEN <<>>
    ELSE LET init == sort_values_by_date(SubSeq(rows, 1, Len(rows) - 1), ties)
             x == rows[Len(rows)]
             before == {i \in 1..Len(init) :
                          \/ DateLess(init[i][COL_DATE], x[COL_DATE])
                          \/ ties = "stable" /\ init[i][COL_DATE] = x[COL_DATE]}
         IN SubSeq(init, 1, Cardinality(before)) \o <<x>>
                \o SubSeq(init, Cardinality(before) + 1, Len(init))

\* agg_max taking the earliest date instead of the latest.
agg_max_as_min(rows) ==
    LET S == {rows[i][COL_DATE] : i \in 1..Len(rows)} \ {NaT}
    IN IF S = {} THEN NaT ELSE CHOOSE x \in S : \A z \in S : ~DateLess(z, x)

\* GroupBy "max" of the dates of a group.
agg_max(rows) ==
    LET S == {rows[i][COL_DATE] : i \in 1..Len(rows)} \ {NaT}
    IN IF S = {} THEN NaT ELSE MaxDate(S)

\* GroupBy "last" of column col: the last non-missing value of the group.
RECURSIVE agg_last(_, _)
agg_last(rows, col) ==
    IF rows = <<>> THEN NaN
    ELSE IF ~isna(rows[Len(rows)][col]) THEN rows[Len(rows)][col]
    ELSE agg_last(SubSeq(rows, 1, Len(rows) - 1), col)

\* groupby(COL_CLIENT_CODE, as_index=False).agg(...) on the sorted rows: one row
\* per customer code (missing codes form no group), keys ascending.
groupby_agg(sorted, cols) ==
    LET keys == SortedKeys(ColSet(sorted, COL_CLIENT_CODE) \ {NaN})
        grp(k) == Mask(sorted, {i \in 1..Len(sorted) : sorted[i][COL_CLIENT_CODE] = k})
        one(k) ==
            LET base == (COL_CLIENT_CODE :> k) @@ (COL_LAST_DATE :> agg_max(grp(k)))
            IN IF COL_GROUP \in cols
               THEN base @@ (COL_GROUP :> agg_last(grp(k), COL_GROUP))
               ELSE base
    IN [i \in 1..Len(keys) |-> one(keys[i])]

\* build_last_purchase_per_client
build_last_purchase_per_client(df_base, ties) ==
    IF df_base.rows = <<>> THEN Frame({COL_CLIENT_CODE, COL_LAST_DATE}, <<>>)
    ELSE Frame({COL_CLIENT_CODE, COL_LAST_DATE} \cup (df_base.cols \cap {COL_GROUP}),
               groupby_agg(sort_values_by_date(df_base.rows, ties), df_base.cols))

\* get_last_purchase_table
get_last_purchase_table(sheets, ties) ==
    build_last_purchase_per_client(scan_base(sheets), ties)

(***************************************************************************)
(* recency_contribution.py: the date / recency labeler.                    *)
(***************************************************************************)
\* Period("M") as text: "2024-05".
year_month(d) ==
    IF d = NaT THEN <<78, 97, 84>>
    ELSE Digits(d.y) \o <<45>> \o (IF d.m < 10 THEN <<48>> ELSE <<>>) \o Digits(d.m)

\* MONTH_NAMES[month] + " " + str(year); missing for a missing date.
month_label(d) ==
    IF d = NaT THEN NaN ELSE MONTH_NAMES[d.m] \o <<32>> \o Digits(d.y)

\* period_label taking the quarter as month // 3 + 1.
period_label_quarter_off(d) ==
    IF d = NaT THEN NaN
    ELSE IF d.y = 2024 THEN <<67>> \o Digits(d.m \div 3 + 1) \o <<32>> \o Digits(d.y)
    ELSE month_label(d)

\* 2024 by quarters ("C" + quarter + " " + year), other years by month.
period_label(d) ==
    IF d = NaT THEN NaN
    ELSE IF d.y = 2024 THEN <<67>> \o Digits((d.m - 1) \div 3 + 1) \o <<32>> \o Digits(d.y)
    ELSE month_label(d)

\* _add_recency_month on one row.
_add_recency_month(row) ==
    [c \in {"year_month", "month_label", "period_label"} |->
        IF c = "year_month" THEN year_month(row[COL_LAST_DATE])
        ELSE IF c = "month_label" THEN month_label(row[COL_LAST_DATE])
        ELSE period_label(row[COL_LAST_DATE])] @@ row

(***************************************************************************)
(* Contribution tables: rows [month_label, value, pct].                    *)
(***************************************************************************)
\* pd.DataFrame(columns=["month_label", "value", "pct"])
empty_df == <<>>

\* DataFrame.empty: no rows or no columns.
empty(df) == df.rows = <<>> \/ df.cols = {}

\* round_pct rounding a tie up instead of to the even tenth.
round_pct_half_up(num, den) ==
    LET n == IF den < 0 THEN -(num * 1000) ELSE num * 1000
        d == IF den < 0 THEN -den ELSE den
        q == n \div d
        r == n - q * d
    IN IF 2 * r < d THEN q ELSE q + 1

\* round(num / den * 100, 1) in tenths of a percent, den # 0: the nearest
\* tenth, a tie going to the even tenth (numpy's round).
round_pct(num, den) ==
    LET n == IF den < 0 THEN -(num * 1000) ELSE num * 1000
        d == IF den < 0 THEN -den ELSE den
        q == n \div d
        r == n - q * d
    IN IF 2 * r < d THEN q
       ELSE IF 2 * r > d THEN q + 1
       ELSE IF q % 2 = 0 THEN q ELSE q + 1

\* Sum of the value column of table rows.
RECURSIVE SumValue(_)
SumValue(t) == IF t = <<>> THEN 0 ELSE Head(t).value + SumValue(Tail(t))

\* sort_values("value", ascending=False): descending by value; rows of equal
\* value as the numpy build leaves them (see sort_values_by_date).
RECURSIVE sort_values_desc(_, _)
sort_values_desc(t, ties) ==
    IF t = <<>> THEN <<>>
    ELSE LET init == sort_values_desc(SubSeq(t, 1, Len(t) - 1), ties)
             x == t[Len(t)]
             before == {i \in 1..Len(init) :
                          \/ init[i].value > x.value
                          \/ ties = "stable" /\ init[i].value = x.value}
         IN SubSeq(init, 1, Cardinality(before)) \o <<x>>
                \o SubSeq(init, Cardinality(before) + 1, Len(init))

\* merge(left, right[[on, label_col]], on=on, how=...) on the rows: every left
\* row paired with each right row of equal key (a missing key equals a missing
\* key); how="left" keeps an unmatched left row with a missing label.
RECURSIVE merge(_, _, _, _, _)
merge(left, right, on, label_col, how) ==
    IF left = <<>> THEN <<>>
    ELSE LET l == Head(left)
             hits == Mask(right, {j \in 1..Len(right) : right[j][on] = l[on]})
             pairs == [j \in 1..Len(hits) |-> WithCol(l, label_col, hits[j][label_col])]
         IN (IF hits = <<>> /\ how = "left" THEN <<WithCol(l, label_col, NaN)>> ELSE pairs)
                \o merge(Tail(left), right, on, label_col, how)

\* groupby_sum counting the rows of each group instead of summing them.
groupby_sum_as_count(rows, label_col, col) ==
    LET keys == SortedKeys(ColSet(rows, label_col) \ {NaN})
        grp(k) == Mask(rows, {i \in 1..Len(rows) : rows[i][label_col] = k})
    IN [i \in 1..Len(keys) |-> [month_label |-> keys[i], value |-> Len(grp(keys[i]))]]

\* groupby(label_col, as_index=False)[col].sum(): one row per label (a missing
\* label forms no group), labels ascending.
groupby_sum(rows, label_col, col) ==
    LET keys == SortedKeys(ColSet(rows, label_col) \ {NaN})
        grp(k) == Mask(rows, {i \in 1..Len(rows) : rows[i][label_col] = k})
    IN [i \in 1..Len(keys) |->
          [month_label |-> keys[i], value |-> SumOf(grp(keys[i]), col)]]

\* groupby(label_col, as_index=False)[col].nunique()
groupby_nunique(rows, label_col, col) ==
    LET keys == SortedKeys(ColSet(rows, label_col) \ {NaN})
        grp(k) == Mask(rows, {i \in 1..Len(rows) : rows[i][label_col] = k})
    IN [i \in 1..Len(keys) |->
          [month_label |-> keys[i],
           value |-> Cardinality(ColSet(grp(keys[i]), col) \ {NaN})]]

(***************************************************************************)
(* contribution_from_upload: the single-metric aggregator.                 *)
(***************************************************************************)
\* What a call returns: a table, or the exception it raises.
Returned(t) == [kind |-> "ok", table |-> t]
Raised(e) == [kind |-> e, table |-> empty_df]

\* Line 129 negated: both columns are columns of the upload.
upload_has_columns(df_upload, value_column, client_code_column) ==
    value_column \in df_upload.cols /\ client_code_column \in df_upload.cols

\* Selecting a column a frame does not have raises KeyError (lines 132-134 select
\* last_purchase_date and the code column of df_last_purchase, and the code and
\* value columns of df_upload).
contribution_from_upload(df_upload, df_last_purchase, value_column, client_code_column, ties) ==
    IF empty(df_upload) \/ empty(df_last_purchase) THEN Returned(empty_df)
    ELSE IF ~upload_has_columns(df_upload, value_column, client_code_column)
         THEN Returned(empty_df)
    ELSE IF ~({COL_LAST_DATE, client_code_column} \subseteq df_last_purchase.cols)
              \/ ~({client_code_column, value_column} \subseteq df_upload.cols)
         THEN Raised("KeyError")
    ELSE LET df_last == [i \in 1..Len(df_last_purchase.rows) |->
                            _add_recency_month(df_last_purchase.rows[i])]
             left == [i \in 1..Len(df_upload.rows) |->
                         Project(df_upload.rows[i], {client_code_column, value_column})]
             merged == merge(left, df_last, client_code_column, "month_label", "inner")
             by_month == groupby_sum(merged, "month_label", value_column)
             total == SumValue(by_month)
             with_pct == [i \in 1..Len(by_month) |->
                            [month_label |-> by_month[i].month_label,
                             value |-> by_month[i].value,
                             pct |-> IF total # 0 THEN round_pct(by_month[i].value, total)
                                     ELSE 0]]
         IN IF merged = <<>> THEN Returned(empty_df)
            ELSE Returned(sort_values_desc(with_pct, ties))

(***************************************************************************)
(* contribution_tables_from_upload: the multi-metric builder.              *)
(***************************************************************************)
\* The category filter argument: None, one string, or a list of strings.
FilterNone == [kind |-> "none", vals |-> <<>>]
FilterStr(x) == [kind |-> "str", vals |-> <<x>>]
FilterList(xs) == [kind |-> "list", vals |-> xs]

SeqRange(xs) == {xs[i] : i \in 1..Len(xs)}

\* _filter_by_categories keeping no row when nothing is selected.
_filter_by_categories_empty_keeps_none(df, selected) ==
    LET selected_set == {strip(selected[i]) : i \in 1..Len(selected)}
        cols == SeqRange(CATEGORY_COLUMNS) \cap df.cols
        mask == {i \in 1..Len(df.rows) :
                    \E col \in cols : strip(astype_str(df.rows[i][col])) \in selected_set}
    IN Frame(df.cols, Mask(df.rows, mask))

\* _filter_by_categories looking at the primary category column only.
_filter_by_categories_group_only(df, selected) ==
    LET selected_set == {strip(selected[i]) : i \in 1..Len(selected)}
        mask == {i \in 1..Len(df.rows) :
                    strip(astype_str(df.rows[i][COL_GROUP])) \in selected_set}
    IN IF selected = <<>> THEN df ELSE Frame(df.cols, Mask(df.rows, mask))

\* _filter_by_categories: the rows with, in at least one of the CATEGORY_COLUMNS
\* present, a value (as text, trimmed) among the trimmed selected values; every
\* row when nothing is selected or no such column is present.
_filter_by_categories(df, selected) ==
    LET selected_set == {strip(selected[i]) : i \in 1..Len(selected)}
        cols == SeqRange(CATEGORY_COLUMNS) \cap df.cols
        mask == {i \in 1..Len(df.rows) :
                    \E col \in cols : strip(astype_str(df.rows[i][col])) \in selected_set}
    IN IF selected = <<>> THEN df
       ELSE IF cols = {} THEN df
       ELSE Frame(df.cols, Mask(df.rows, mask))

\* work after the category_filter branch (lines 184-189).
apply_category_filter(df_upload, category_filter) ==
    IF category_filter.kind = "none" THEN df_upload
    ELSE IF category_filter.kind = "list"
         THEN _filter_by_categories(df_upload, category_filter.vals)
    ELSE Frame(df_upload.cols,
               Mask(df_upload.rows,
                    {i \in 1..Len(df_upload.rows) :
                        strip(astype_str(df_upload.rows[i][COL_GROUP]))
                            = strip(category_filter.vals[1])}))

\* category_options (app.py): the values offered for selection, i.e. the
\* non-missing values of the category columns present, as text, trimmed, sorted.
category_options(df_upload) ==
    SortedKeys(UNION {{strip(astype_str(df_upload.rows[i][col])) :
                          i \in {k \in 1..Len(df_upload.rows) : ~isna(df_upload.rows[k][col])}} :
                      col \in SeqRange(CATEGORY_COLUMNS) \cap df_upload.cols})

\* code_empty testing only for a missing code, not for a blank one.
code_empty_as_isna(row) == isna(row[COL_CLIENT_CODE])

\* code_empty: the customer code is missing or blank.
code_empty(row) ==
    isna(row[COL_CLIENT_CODE]) \/ strip(astype_str(row[COL_CLIENT_CODE])) = <<>>

\* new_value taken from the first new-customer row alone.
new_value_first_row(metric_col, agg, new) ==
    IF agg = "sum" THEN new[1][metric_col] ELSE 1

\* The value of the new-customer row (lines 229-232).
new_value(metric_col, agg, new) ==
    IF agg = "sum" THEN SumOf(new, metric_col)
    ELSE Cardinality(ColSet(new, COL_CLIENT_CODE) \ {NaN})

\* no_bk_value counting the rows without a code for the customer metric.
no_bk_value_as_count(metric_col, agg, no_bk) ==
    IF agg = "sum" THEN SumOf(no_bk, metric_col) ELSE Len(no_bk)

\* The value of the no-bonus-card row (lines 235-239): 0 for the customer metric.
no_bk_value(metric_col, agg, no_bk) ==
    IF agg = "sum" THEN SumOf(no_bk, metric_col) ELSE 0

\* parts concatenated (lines 219-243): the period rows, then the new-customer
\* row, then the no-bonus-card row, each only if its partition has rows.
one_metric_parts(metric_col, agg, in_base, no_bk, new) ==
    LET by_period == IF in_base = <<>> THEN <<>>
                     ELSE IF agg = "sum" THEN groupby_sum(in_base, "period_label", metric_col)
                     ELSE groupby_nunique(in_base, "period_label", COL_CLIENT_CODE)
        new_part == IF new = <<>> THEN <<>>
                    ELSE <<[month_label |-> LABEL_NEW_CLIENTS,
                            value |-> new_value(metric_col, agg, new)]>>
        no_bk_part == IF no_bk = <<>> THEN <<>>
                      ELSE <<[month_label |-> LABEL_NO_BONUS_CARD,
                              value |-> no_bk_value(metric_col, agg, no_bk)]>>
    IN by_period \o new_part \o no_bk_part

\* The rows pct is computed for (line 250): all of them, but for the customer
\* metric not the no-bonus-card row.
in_pct_base(row, agg) == agg # "nunique" \/ row.month_label # LABEL_NO_BONUS_CARD

\* pct_total leaving the no-bonus-card row out for every metric.
pct_total_without_no_bk(combined, agg) ==
    SumValue(Mask(combined,
                  {i \in 1..Len(combined) : combined[i].month_label # LABEL_NO_BONUS_CARD}))

\* total (lines 245-247)
pct_total(combined, agg) ==
    SumValue(Mask(combined, {i \in 1..Len(combined) : in_pct_base(combined[i], agg)}))

\* pct of one row (lines 248-251): 0.0 unless the total is positive.
pct_of(row, total, agg) ==
    IF total # 0 /\ total > 0 /\ in_pct_base(row, agg) THEN round_pct(row.value, total)
    ELSE 0

\* _one_metric before the final sort.
one_metric_combined(metric_col, agg, in_base, no_bk, new) ==
    LET combined == one_metric_parts(metric_col, agg, in_base, no_bk, new)
        total == pct_total(combined, agg)
    IN [i \in 1..Len(combined) |->
          [month_label |-> combined[i].month_label,
           value |-> combined[i].value,
           pct |-> pct_of(combined[i], total, agg)]]

\* _one_metric leaving out the rows whose value is 0.
_one_metric_drop_zero(metric_col, agg, in_base, no_bk, new, ties) ==
    LET c == one_metric_combined(metric_col, agg, in_base, no_bk, new)
    IN sort_values_desc(Mask(c, {i \in 1..Len(c) : c[i].value # 0}), ties)

\* _one_metric
_one_metric(metric_col, agg, in_base, no_bk, new, ties) ==
    sort_values_desc(one_metric_combined(metric_col, agg, in_base, no_bk, new), ties)

\* The four empty tables; the tables of a result are keyed Prodazhi ("Продажи"),
\* Cheki ("Чеки"), Tovar ("Товар в шт."), Klienty ("Клиенты").
empty_tables ==
    [Prodazhi |-> empty_df, Cheki |-> empty_df, Tovar |-> empty_df, Klienty |-> empty_df]

\* What a call of the builder returns: (tables, period_to_clients), or the
\* exception it raises.
ReturnedTables(t, idx) == [kind |-> "ok", tables |-> t, index |-> idx]
RaisedTables(e) == [kind |-> e, tables |-> empty_tables, index |-> <<>>]

\* period_to_clients listing under "new customers" the codes of all merged rows.
period_to_clients_new_from_merged(merged_in_base, new_clients) ==
    LET labels == ColSet(merged_in_base, "period_label")
        grp(k) == Mask(merged_in_base,
                       {i \in 1..Len(merged_in_base) : merged_in_base[i]["period_label"] = k})
        codes(rows) == LET u == unique(rows, COL_CLIENT_CODE)
                       IN [i \in 1..Len(u) |-> astype_str(u[i])]
        keys == labels \cup (IF new_clients = <<>> THEN {} ELSE {LABEL_NEW_CLIENTS})
                       \cup {LABEL_NO_BONUS_CARD}
    IN [k \in keys |->
          IF k = LABEL_NO_BONUS_CARD THEN <<>>
          ELSE IF k = LABEL_NEW_CLIENTS /\ new_clients # <<>>
               THEN codes(merged_in_base \o new_clients)
          ELSE codes(grp(k))]

\* period_to_clients (lines 254-261): label -> list of str(code).
period_to_clients(merged_in_base, new_clients) ==
    LET labels == ColSet(merged_in_base, "period_label")
        grp(k) == Mask(merged_in_base,
                       {i \in 1..Len(merged_in_base) : merged_in_base[i]["period_label"] = k})
        codes(rows) == LET u == unique(rows, COL_CLIENT_CODE)
                       IN [i \in 1..Len(u) |-> astype_str(u[i])]
        keys == labels \cup (IF new_clients = <<>> THEN {} ELSE {LABEL_NEW_CLIENTS})
                       \cup {LABEL_NO_BONUS_CARD}
    IN [k \in keys |->
          IF k = LABEL_NO_BONUS_CARD THEN <<>>
          ELSE IF k = LABEL_NEW_CLIENTS /\ new_clients # <<>> THEN codes(new_clients)
          ELSE codes(grp(k))]

\* has_required_columns asking for any of the columns instead of all.
has_required_columns_any(df_upload) ==
    \E c \in UPLOAD_REQUIRED_COLUMNS : c \in df_upload.cols

\* Line 181: all of UPLOAD_REQUIRED_COLUMNS are columns of the upload.
has_required_columns(df_upload) ==
    \A c \in UPLOAD_REQUIRED_COLUMNS : c \in df_upload.cols

\* Selecting a column a frame does not have raises KeyError (the builder selects
\* the category, code and metric columns of df_upload, and last_purchase_date
\* and the code column of a non-empty df_last_purchase).
contribution_tables_from_upload(df_upload, df_last_purchase, category_filter, ties) ==
    LET work == apply_category_filter(df_upload, category_filter).rows
        work_empty == Mask(work, {i \in 1..Len(work) : code_empty(work[i])})
        work_with_code == Mask(work, {i \in 1..Len(work) : ~code_empty(work[i])})
        df_last == [i \in 1..Len(df_last_purchase.rows) |->
                       _add_recency_month(df_last_purchase.rows[i])]
        merged == IF empty(df_last_purchase)
                  THEN [i \in 1..Len(work_with_code) |->
                           WithCol(work_with_code[i], "period_label", NaN)]
                  ELSE merge(work_with_code, df_last, COL_CLIENT_CODE, "period_label", "left")
        merged_in_base == Mask(merged, {i \in 1..Len(merged) : ~isna(merged[i]["period_label"])})
        new_clients == Mask(merged, {i \in 1..Len(merged) : isna(merged[i]["period_label"])})
        tables ==
            [Prodazhi |-> _one_metric(UPLOAD_COL_SALES, "sum", merged_in_base, work_empty, new_clients, ties),
             Cheki |-> _one_metric(UPLOAD_COL_RECEIPTS, "sum", merged_in_base, work_empty, new_clients, ties),
             Tovar |-> _one_metric(UPLOAD_COL_ITEMS, "sum", merged_in_base, work_empty, new_clients, ties),
             Klienty |-> _one_metric(COL_CLIENT_CODE, "nunique", merged_in_base, work_empty, new_clients, ties)]
    IN IF empty(df_upload) THEN ReturnedTables(empty_tables, <<>>)
       ELSE IF ~has_required_columns(df_upload)
            THEN ReturnedTables(empty_tables, <<>>)
       ELSE IF ~(UPLOAD_REQUIRED_COLUMNS \subseteq df_upload.cols) THEN RaisedTables("KeyError")
       ELSE IF work = <<>> THEN ReturnedTables(empty_tables, <<>>)
       ELSE IF ~empty(df_last_purchase)
                 /\ (COL_LAST_DATE \notin df_last_purchase.cols
                       \/ COL_CLIENT_CODE \notin df_last_purchase.cols)
            THEN RaisedTables("KeyError")
       ELSE ReturnedTables(tables, period_to_clients(merged_in_base, new_clients))

(***************************************************************************)
(* State: the arguments of the entry points, what each returned, and the   *)
(* tie order of the numpy build the program runs on.                       *)
(***************************************************************************)
VARIABLES
    sort_ties,           \* "stable" or "reversed": how the build's quicksort leaves ties
    base_sheets,         \* the sheets of the base folder, as read
    df_upload,           \* the uploaded metric table
    df_last_purchase,    \* the last-purchase table handed to the aggregator / builder
    value_column,        \* aggregator argument
    client_code_column,  \* aggregator argument
    category_filter,     \* builder argument
    called,              \* the entry points that have returned
    last_purchase,       \* what get_last_purchase_table returned
    agg_result,          \* what contribution_from_upload returned
    bld_result,          \* what contribution_tables_from_upload returned
    labelled,            \* what _add_recency_month returned
    bld_calls            \* the builder's calls in a session of several: arguments, result

vars == <<sort_ties, base_sheets, df_upload, df_last_purchase, value_column,
          client_code_column, category_filter, called, last_purchase, agg_result,
          bld_result, labelled, bld_calls>>

inputs == <<sort_ties, base_sheets, df_upload, df_last_purchase, value_column,
            client_code_column, category_filter>>

\* All sequences over S of length at most n.
SeqsUpTo(S, n) == UNION {[1..k -> S] : k \in 0..n}

SortTies == {"stable", "reversed"}

\* Nothing has been called: the result variables hold placeholders.
NothingCalled ==
    /\ called = {}
    /\ last_purchase = EmptyFrame
    /\ agg_result = Returned(empty_df)
    /\ bld_result = ReturnedTables(empty_tables, <<>>)
    /\ labelled = EmptyFrame
    /\ bld_calls = <<>>

\* Arguments an entry point under study does not read.
NoSheets == base_sheets = <<>>
NoUpload ==
    /\ df_upload = EmptyFrame
    /\ df_last_purchase = EmptyFrame
    /\ value_column = UPLOAD_COL_SALES
    /\ client_code_column = COL_CLIENT_CODE
    /\ category_filter = FilterNone

(***************************************************************************)
(* The entry points as actions.                                            *)
(***************************************************************************)
GetLastPurchaseTable ==
    /\ "get_last_purchase_table" \notin called
    /\ last_purchase' = get_last_purchase_table(base_sheets, sort_ties)
    /\ called' = called \cup {"get_last_purchase_table"}
    /\ UNCHANGED <<inputs, agg_result, bld_result, labelled, bld_calls>>

ContributionFromUpload ==
    /\ "contribution_from_upload" \notin called
    /\ agg_result' = contribution_from_upload(df_upload, df_last_purchase, value_column,
                                              client_code_column, sort_ties)
    /\ called' = called \cup {"contribution_from_upload"}
    /\ UNCHANGED <<inputs, last_purchase, bld_result, labelled, bld_calls>>

ContributionTablesFromUpload ==
    /\ "contribution_tables_from_upload" \notin called
    /\ bld_result' = contribution_tables_from_upload(df_upload, df_last_purchase,
                                                     category_filter, sort_ties)
    /\ called' = called \cup {"contribution_tables_from_upload"}
    /\ UNCHANGED <<inputs, last_purchase, agg_result, labelled, bld_calls>>

AddRecencyMonth ==
    /\ "_add_recency_month" \notin called
    /\ labelled' = Frame(df_last_purchase.cols \cup {"year_month", "month_label", "period_label"},
                         [i \in 1..Len(df_last_purchase.rows) |->
                             _add_recency_month(df_last_purchase.rows[i])])
    /\ called' = called \cup {"_add_recency_month"}
    /\ UNCHANGED <<inputs, last_purchase, agg_result, bld_result, bld_calls>>

\* One call of the builder as bld_calls records it: the arguments, what the
\* other entry points had returned by then, the result, the tables afterwards.
CallRecord(upload, last, filter, result, upload_after, last_after) ==
    [df_upload |-> upload, df_last_purchase |-> last, category_filter |-> filter,
     seen |-> called, result |-> result,
     upload_after |-> upload_after, last_after |-> last_after]

\* A builder that joins once and reuses the filtered rows of its previous call.
CallBuilderStale ==
    \E f \in {FilterNone, FilterStr(<<88>>)} :
        LET used == IF bld_calls = <<>> THEN f ELSE bld_calls[Len(bld_calls)].category_filter
            result == contribution_tables_from_upload(df_upload, df_last_purchase, used,
                                                      sort_ties)
        IN /\ Len(bld_calls) < MaxCalls
           /\ bld_result' = result
           /\ category_filter' = f
           /\ bld_calls' = Append(bld_calls,
                                  CallRecord(df_upload, df_last_purchase, f, result,
                                             df_upload, df_last_purchase))
           /\ UNCHANGED <<sort_ties, base_sheets, df_upload, df_last_purchase, value_column,
                          client_code_column, called, last_purchase, agg_result, labelled>>

\* contribution_tables_from_upload called again and again in one session, on
\* the same tables with a filter of the caller's choice; it works on copies
\* (lines 183, 200, 203) and leaves the tables it was given alone.
CallBuilder ==
    \E f \in {FilterNone, FilterStr(<<88>>)} :
        LET result == contribution_tables_from_upload(df_upload, df_last_purchase, f,
                                                      sort_ties)
        IN /\ Len(bld_calls) < MaxCalls
           /\ bld_result' = result
           /\ category_filter' = f
           /\ bld_calls' = Append(bld_calls,
                                  CallRecord(df_upload, df_last_purchase, f, result,
                                             df_upload, df_last_purchase))
           /\ UNCHANGED <<sort_ties, base_sheets, df_upload, df_last_purchase, value_column,
                          client_code_column, called, last_purchase, agg_result, labelled>>

(***************************************************************************)
(* SpecReduce: purchase sheets through the last-purchase reducer.          *)
(***************************************************************************)
\* "A", "B", a missing code.
BaseCodes == {<<65>>, <<66>>, NaN}
\* 2024-01-10, 2024-03-02, the text "02.03.2024", junk text, an empty cell.
BaseDateCells == {Ts(2024, 1, 10), Ts(2024, 3, 2), DateText(2, 3, 2024), JunkText, NaT}
\* "X", "Y", a missing category.
BaseGroups == {<<88>>, <<89>>, NaN}

BaseCols == {COL_GROUP, COL_DATE, COL_CLIENTS, COL_CLIENT_CODE}

PurchaseRecords ==
    {[c \in BaseCols |->
        IF c = COL_CLIENT_CODE THEN code
        ELSE IF c = COL_DATE THEN date
        ELSE IF c = COL_GROUP THEN group
        ELSE 1] : code \in BaseCodes, date \in BaseDateCells, group \in BaseGroups}

InitReduce ==
    /\ sort_ties \in SortTies
    /\ base_sheets \in {<<Frame(BaseCols, rows)>> : rows \in SeqsUpTo(PurchaseRecords, MaxRecs)}
    /\ NoUpload
    /\ NothingCalled

NextReduce == GetLastPurchaseTable

SpecReduce == InitReduce /\ [][NextReduce]_vars

(***************************************************************************)
(* Inputs of the aggregator and the builder.                               *)
(***************************************************************************)
LastCols == {COL_CLIENT_CODE, COL_LAST_DATE}

LastRow(code, date) == (COL_CLIENT_CODE :> code) @@ (COL_LAST_DATE :> date)

\* Last-purchase tables as the reducer returns them (one row per customer, codes
\* ascending): customer "A" absent or last seen 2023-05-20 / 2024-05-20,
\* customer "B" absent or last seen 2024-05-20 / 2024-06-01.
LastTables ==
    {Frame(LastCols, a \o b) :
        a \in {<<>>, <<LastRow(<<65>>, Ts(2023, 5, 20))>>, <<LastRow(<<65>>, Ts(2024, 5, 20))>>},
        b \in {<<>>, <<LastRow(<<66>>, Ts(2024, 5, 20))>>, <<LastRow(<<66>>, Ts(2024, 6, 1))>>}}

\* Customer codes of uploaded rows: "A", "B", blank " ", missing.
UploadCodes == {<<65>>, <<66>>, <<32>>, NaN}

\* An uploaded row of the required columns.
UploadRow(code, group, sales, receipts, items) ==
    [c \in UPLOAD_REQUIRED_COLUMNS |->
        IF c = COL_CLIENT_CODE THEN code
        ELSE IF c = COL_GROUP THEN group
        ELSE IF c = UPLOAD_COL_SALES THEN sales
        ELSE IF c = UPLOAD_COL_RECEIPTS THEN receipts
        ELSE items]

\* (category, sales, receipts, items) of the uploaded rows: a sale, a large
\* sale, a zero line of another category, a return.
Lines == {<<<<88>>, 1, 1, 2>>, <<<<88>>, 15, 2, 1>>, <<<<89>>, 0, 1, 0>>, <<<<88>>, -1, 1, 1>>}

UploadRows == {UploadRow(code, l[1], l[2], l[3], l[4]) : code \in UploadCodes, l \in Lines}

(***************************************************************************)
(* Spec: uploaded rows through the multi-metric builder.                   *)
(***************************************************************************)
Init ==
    /\ sort_ties \in SortTies
    /\ NoSheets
    /\ df_upload \in {Frame(UPLOAD_REQUIRED_COLUMNS, rows) : rows \in SeqsUpTo(UploadRows, MaxRows)}
    /\ df_last_purchase \in LastTables
    /\ value_column = UPLOAD_COL_SALES
    /\ client_code_column = COL_CLIENT_CODE
    /\ category_filter \in {FilterNone, FilterStr(<<88>>)}
    /\ NothingCalled

Next == ContributionTablesFromUpload

Spec == Init /\ [][Next]_vars

(***************************************************************************)
(* SpecAgg: uploaded rows through the single-metric aggregator.            *)
(***************************************************************************)
AggCols == {COL_CLIENT_CODE, UPLOAD_COL_SALES}

AggRows ==
    {(COL_CLIENT_CODE :> code) @@ (UPLOAD_COL_SALES :> v) :
        code \in {<<65>>, <<66>>, NaN}, v \in {-1, 0, 1, 15}}

InitAgg ==
    /\ sort_ties \in SortTies
    /\ NoSheets
    /\ df_upload \in {Frame(AggCols, rows) : rows \in SeqsUpTo(AggRows, MaxAggRows)}
    /\ df_last_purchase \in LastTables
    /\ value_column = UPLOAD_COL_SALES
    /\ client_code_column = COL_CLIENT_CODE
    /\ category_filter = FilterNone
    /\ NothingCalled

NextAgg == ContributionFromUpload

SpecAgg == InitAgg /\ [][NextAgg]_vars

(***************************************************************************)
(* SpecPct: the same upload through the aggregator and through the         *)
(* builder, for the percentages of both.                                   *)
(***************************************************************************)
PctRows == {UploadRow(code, l[1], l[2], l[3], l[4]) : code \in {<<65>>, <<66>>, NaN}, l \in Lines}

InitPct ==
    /\ sort_ties \in SortTies
    /\ NoSheets
    /\ df_upload \in {Frame(UPLOAD_REQUIRED_COLUMNS, rows) : rows \in SeqsUpTo(PctRows, MaxRows)}
    /\ df_last_purchase \in LastTables
    /\ value_column = UPLOAD_COL_SALES
    /\ client_code_column = COL_CLIENT_CODE
    /\ category_filter = FilterNone
    /\ NothingCalled

NextPct == ContributionFromUpload \/ ContributionTablesFromUpload

SpecPct == InitPct /\ [][NextPct]_vars

(***************************************************************************)
(* SpecSchema: uploads lacking columns through both entry points.          *)
(***************************************************************************)
\* One uploaded row over the columns cols.
SchemaRow(cols, code) ==
    [c \in cols |-> IF c = COL_CLIENT_CODE THEN code ELSE IF c = COL_GROUP THEN <<88>> ELSE 1]

\* Last-purchase tables with and without their two columns.
SchemaLastTables ==
    {Frame(LastCols, <<>>),
     Frame(LastCols, <<LastRow(<<65>>, Ts(2023, 5, 20))>>),
     Frame({COL_CLIENT_CODE}, <<(COL_CLIENT_CODE :> <<65>>)>>),
     Frame({COL_LAST_DATE}, <<(COL_LAST_DATE :> Ts(2023, 5, 20))>>)}

InitSchema ==
    /\ sort_ties = "stable"
    /\ NoSheets
    /\ df_upload \in
          UNION {{Frame(cols, rows) :
                    rows \in {<<>>} \cup {<<SchemaRow(cols, code)>> : code \in {<<65>>, NaN}}} :
                 cols \in SUBSET UPLOAD_REQUIRED_COLUMNS}
    /\ df_last_purchase \in SchemaLastTables
    /\ value_column \in {UPLOAD_COL_SALES, "Vyruchka"}
    /\ client_code_column \in {COL_CLIENT_CODE, "code"}
    /\ category_filter \in {FilterNone, FilterStr(<<88>>), FilterList(<< <<88>> >>)}
    /\ NothingCalled

NextSchema == ContributionFromUpload \/ ContributionTablesFromUpload

SpecSchema == InitSchema /\ [][NextSchema]_vars

(***************************************************************************)
(* SpecFilter: categories through the builder's category filter.           *)
(***************************************************************************)
\* Primary categories "X", " X ", "Y", missing; products "X", "Z".
FilterGroups == << <<88>>, <<32, 88, 32>>, <<89>>, NaN >>
FilterProducts == << <<88>>, <<90>> >>

\* One uploaded row per category and product, told apart by its sales.
FilterRows(cols) ==
    {[c \in cols |->
        IF c = COL_CLIENT_CODE THEN <<65>>
        ELSE IF c = COL_GROUP THEN FilterGroups[g]
        ELSE IF c = "Tovar" THEN FilterProducts[t]
        ELSE IF c = UPLOAD_COL_SALES THEN (4 ^ (g - 1)) * (256 ^ (t - 1))
        ELSE 1] : g \in DOMAIN FilterGroups, t \in DOMAIN FilterProducts}

\* None, "X", " X", "nan", [], ["X"], ["Z", " Y"], ["nan"].
CategoryFilters ==
    {FilterNone, FilterStr(<<88>>), FilterStr(<<32, 88>>), FilterStr(<<110, 97, 110>>),
     FilterList(<<>>), FilterList(<< <<88>> >>), FilterList(<< <<90>>, <<32, 89>> >>),
     FilterList(<< <<110, 97, 110>> >>)}

InitFilter ==
    /\ sort_ties = "stable"
    /\ NoSheets
    /\ df_upload \in
          UNION {{Frame(cols, rows) : rows \in SeqsUpTo(FilterRows(cols), MaxFilterRows)} :
                 cols \in {UPLOAD_REQUIRED_COLUMNS, UPLOAD_REQUIRED_COLUMNS \cup {"Tovar"}}}
    /\ df_last_purchase = Frame(LastCols, <<LastRow(<<65>>, Ts(2023, 5, 20))>>)
    /\ value_column = UPLOAD_COL_SALES
    /\ client_code_column = COL_CLIENT_CODE
    /\ category_filter \in CategoryFilters
    /\ NothingCalled

NextFilter == ContributionTablesFromUpload

SpecFilter == InitFilter /\ [][NextFilter]_vars

(***************************************************************************)
(* SpecNoOp: the builder without a filter, with the empty list, and with   *)
(* every value offered for selection.                                      *)
(***************************************************************************)
InitNoOp ==
    /\ sort_ties = "stable"
    /\ NoSheets
    /\ df_upload \in
          UNION {{Frame(cols, rows) : rows \in SeqsUpTo(FilterRows(cols), MaxFilterRows)} :
                 cols \in {UPLOAD_REQUIRED_COLUMNS, UPLOAD_REQUIRED_COLUMNS \cup {"Tovar"}}}
    /\ df_last_purchase = Frame(LastCols, <<LastRow(<<65>>, Ts(2023, 5, 20))>>)
    /\ value_column = UPLOAD_COL_SALES
    /\ client_code_column = COL_CLIENT_CODE
    /\ category_filter \in
          {FilterNone, FilterList(<<>>), FilterList(category_options(df_upload))}
    /\ NothingCalled

NextNoOp == ContributionTablesFromUpload

SpecNoOp == InitNoOp /\ [][NextNoOp]_vars

(***************************************************************************)
(* SpecLabel: last-purchase dates through _add_recency_month.              *)
(***************************************************************************)
\* The first and the twentieth of every month of 1999, 2023, 2024 and 2025.
LabelDates == {Ts(y, mo, d) : y \in {1999, 2023, 2024, 2025}, mo \in 1..12, d \in {1, 20}}

InitLabel ==
    /\ sort_ties = "stable"
    /\ NoSheets
    /\ df_upload = EmptyFrame
    /\ df_last_purchase \in {Frame(LastCols, <<LastRow(<<65>>, d)>>) : d \in LabelDates}
    /\ value_column = UPLOAD_COL_SALES
    /\ client_code_column = COL_CLIENT_CODE
    /\ category_filter = FilterNone
    /\ NothingCalled

NextLabel == AddRecencyMonth

SpecLabel == InitLabel /\ [][NextLabel]_vars

(***************************************************************************)
(* SpecSession: the builder called several times on the same tables, the   *)
(* aggregator and the labeler called in between.                           *)
(***************************************************************************)
\* Two uploaded rows with codes "A" or missing.
SessionRows ==
    {UploadRow(code, l[1], l[2], l[3], l[4]) :
        code \in {<<65>>, NaN}, l \in {<<<<88>>, 1, 1, 2>>, <<<<88>>, 15, 2, 1>>, <<<<89>>, 0, 1, 0>>}}

InitSession ==
    /\ sort_ties \in SortTies
    /\ NoSheets
    /\ df_upload \in {Frame(UPLOAD_REQUIRED_COLUMNS, <<r1, r2>>) : r1 \in SessionRows, r2 \in SessionRows}
    /\ df_last_purchase \in
          {Frame(LastCols, <<LastRow(<<65>>, Ts(2023, 5, 20))>>),
           Frame(LastCols, <<LastRow(<<65>>, Ts(2024, 5, 20)), LastRow(<<66>>, Ts(2024, 6, 1))>>)}
    /\ value_column = UPLOAD_COL_SALES
    /\ client_code_column = COL_CLIENT_CODE
    /\ category_filter = FilterNone
    /\ NothingCalled

NextSession == CallBuilder \/ ContributionFromUpload \/ AddRecencyMonth

SpecSession == InitSession /\ [][NextSession]_vars

(***************************************************************************)
(* Claims about the last-purchase reducer (SpecReduce).                    *)
(***************************************************************************)
\* The records of the sheet, and those with a valid date and a customer code.
SheetRows == base_sheets[1].rows
ValidRecords ==
    {i \in 1..Len(SheetRows) :
        _parse_date(SheetRows[i][COL_DATE]) # NaT /\ ~isna(SheetRows[i][COL_CLIENT_CODE])}
ValidOf(code) == {i \in ValidRecords : SheetRows[i][COL_CLIENT_CODE] = code}
RowsOf(code) ==
    {j \in 1..Len(last_purchase.rows) : last_purchase.rows[j][COL_CLIENT_CODE] = code}

\* C1: once the reducer has returned, every customer code with at least one
\* valid record (parseable date, code present) has exactly one output row, whose
\* last_purchase_date is the latest date among that customer's valid records;
\* and every output row belongs to such a customer, so records with a missing or
\* unparseable date or a missing code add no row and change no date.
C1_LastPurchaseIsMaxOfValidRecords ==
    "get_last_purchase_table" \in called =>
        /\ \A i \in ValidRecords :
              LET code == SheetRows[i][COL_CLIENT_CODE]
              IN /\ Cardinality(RowsOf(code)) = 1
                 /\ \A j \in RowsOf(code) :
                       LET d == last_purchase.rows[j][COL_LAST_DATE]
                       IN /\ \E k \in ValidOf(code) : d = _parse_date(SheetRows[k][COL_DATE])
                          /\ \A k \in ValidOf(code) :
                                ~DateLess(d, _parse_date(SheetRows[k][COL_DATE]))
        /\ \A j \in 1..Len(last_purchase.rows) :
              ValidOf(last_purchase.rows[j][COL_CLIENT_CODE]) # {}

\* C1 witness: the reducer has returned on a sheet holding two valid records of
\* one customer, the later date first; the single output row carries that date.
C1_Witness ==
    /\ "get_last_purchase_table" \in called
    /\ Len(SheetRows) = 2
    /\ ValidRecords = {1, 2}
    /\ SheetRows[1][COL_CLIENT_CODE] = SheetRows[2][COL_CLIENT_CODE]
    /\ DateLess(_parse_date(SheetRows[2][COL_DATE]), _parse_date(SheetRows[1][COL_DATE]))
    /\ Len(last_purchase.rows) = 1
    /\ last_purchase.rows[1][COL_LAST_DATE] = _parse_date(SheetRows[1][COL_DATE])

(***************************************************************************)
(* Claims about the aggregator (SpecAgg).                                  *)
(***************************************************************************)
\* Sum of column col over the uploaded rows at the positions I.
RECURSIVE UploadSum(_, _)
UploadSum(I, col) ==
    IF I = {} THEN 0
    ELSE LET i == CHOOSE x \in I : TRUE
         IN df_upload.rows[i][col] + UploadSum(I \ {i}, col)

\* The last-purchase entries whose code is that of uploaded row i.
EntriesOf(i) ==
    {j \in 1..Len(df_last_purchase.rows) :
        df_last_purchase.rows[j][COL_CLIENT_CODE] = df_upload.rows[i][COL_CLIENT_CODE]}

\* The uploaded rows matching an entry whose date has month label L.
MonthRows(L) ==
    {i \in 1..Len(df_upload.rows) :
        \E j \in EntriesOf(i) : month_label(df_last_purchase.rows[j][COL_LAST_DATE]) = L}

MonthLabels ==
    {month_label(df_last_purchase.rows[j][COL_LAST_DATE]) : j \in 1..Len(df_last_purchase.rows)}

TableLabels(t) == {t[k].month_label : k \in 1..Len(t)}

\* C2: once the aggregator has returned (the last-purchase table holding one row
\* per customer), its table has exactly one row for each month label L that some
\* uploaded row reaches through an entry of equal customer code, the row's value
\* is the sum of the value column over exactly those uploaded rows, rows matching
\* no entry count nowhere, and with no match at all the table is empty.
C2_AggregatorSumsMatchedRowsByMonth ==
    "contribution_from_upload" \in called =>
        LET t == agg_result.table
            expected == {L \in MonthLabels : MonthRows(L) # {}}
        IN /\ agg_result.kind = "ok"
           /\ TableLabels(t) = expected
           /\ Len(t) = Cardinality(expected)
           /\ \A k \in 1..Len(t) : t[k].value = UploadSum(MonthRows(t[k].month_label), value_column)
           /\ (\A i \in 1..Len(df_upload.rows) : EntriesOf(i) = {}) => t = empty_df

\* C2 witness: the aggregator returned one row summing the uploaded rows of two
\* customers whose last purchases fall in the same month.
C2_Witness ==
    /\ "contribution_from_upload" \in called
    /\ Len(df_upload.rows) = 2
    /\ df_upload.rows[1][COL_CLIENT_CODE] # df_upload.rows[2][COL_CLIENT_CODE]
    /\ df_upload.rows[1][value_column] = 1
    /\ df_upload.rows[2][value_column] = 15
    /\ Len(agg_result.table) = 1
    /\ agg_result.table[1].value = 16

(***************************************************************************)
(* Claims about the builder (Spec).                                        *)
(***************************************************************************)
\* Uploaded row i passes the category filter: no filter or an empty list keeps
\* every row, a string keeps the rows whose primary category (as text, trimmed)
\* equals it (trimmed), a list keeps the rows with one of the category columns
\* present (as text, trimmed) among its trimmed values.
Kept(i) ==
    LET row == df_upload.rows[i]
        wanted == {strip(category_filter.vals[k]) : k \in 1..Len(category_filter.vals)}
    IN \/ category_filter.kind = "none"
       \/ category_filter.kind = "str" /\ strip(astype_str(row[COL_GROUP])) \in wanted
       \/ category_filter.kind = "list" /\ category_filter.vals = <<>>
       \/ /\ category_filter.kind = "list"
          /\ \E col \in SeqRange(CATEGORY_COLUMNS) \cap df_upload.cols :
                strip(astype_str(row[col])) \in wanted

KeptRows == {i \in 1..Len(df_upload.rows) : Kept(i)}

\* A customer code is blank: missing, or nothing but white space.
BlankCode(c) == c = NaN \/ \A k \in 1..Len(c) : IsSpace(c[k])

\* The three partitions of the kept rows.
NoCodeRows == {i \in KeptRows : BlankCode(df_upload.rows[i][COL_CLIENT_CODE])}
NewRows ==
    {i \in KeptRows : ~BlankCode(df_upload.rows[i][COL_CLIENT_CODE]) /\ EntriesOf(i) = {}}
MatchedRows(L) ==
    {i \in KeptRows :
        /\ ~BlankCode(df_upload.rows[i][COL_CLIENT_CODE])
        /\ \E j \in EntriesOf(i) : period_label(df_last_purchase.rows[j][COL_LAST_DATE]) = L}

PeriodLabels ==
    {L \in {period_label(df_last_purchase.rows[j][COL_LAST_DATE]) :
              j \in 1..Len(df_last_purchase.rows)} : MatchedRows(L) # {}}

ExpectedLabels ==
    PeriodLabels \cup (IF NewRows # {} THEN {LABEL_NEW_CLIENTS} ELSE {})
                 \cup (IF NoCodeRows # {} THEN {LABEL_NO_BONUS_CARD} ELSE {})

RowsFor(L) ==
    IF L = LABEL_NEW_CLIENTS THEN NewRows
    ELSE IF L = LABEL_NO_BONUS_CARD THEN NoCodeRows
    ELSE MatchedRows(L)

CodesOf(I) == {df_upload.rows[i][COL_CLIENT_CODE] : i \in I}

\* Table t has a row labelled L with value v.
HasRow(t, L, v) == \E k \in 1..Len(t) : t[k].month_label = L /\ t[k].value = v

BuilderReturned == "contribution_tables_from_upload" \in called

\* C3: once the builder has returned, in each of the three sum tables every
\* period label L with matched rows carries the sum of that metric over the kept
\* rows whose non-blank code matches an entry of period label L, the
\* new-customer row the sum over the kept rows whose non-blank code matches no
\* entry, the no-bonus-card row the sum over the kept rows with a blank or
\* missing code; in the customer table the period and new-customer rows carry
\* the number of distinct codes of those same row sets.  No row carries
\* anything else.
C3_BuilderValuesPerPartition ==
    BuilderReturned =>
        LET T == bld_result.tables
            SumTable(t, col) ==
                /\ \A L \in ExpectedLabels : HasRow(t, L, UploadSum(RowsFor(L), col))
                /\ \A k \in 1..Len(t) :
                      t[k].value = UploadSum(RowsFor(t[k].month_label), col)
        IN /\ bld_result.kind = "ok"
           /\ SumTable(T.Prodazhi, UPLOAD_COL_SALES)
           /\ SumTable(T.Cheki, UPLOAD_COL_RECEIPTS)
           /\ SumTable(T.Tovar, UPLOAD_COL_ITEMS)
           /\ \A L \in ExpectedLabels \ {LABEL_NO_BONUS_CARD} :
                 HasRow(T.Klienty, L, Cardinality(CodesOf(RowsFor(L))))
           /\ \A k \in 1..Len(T.Klienty) :
                 T.Klienty[k].month_label # LABEL_NO_BONUS_CARD =>
                     T.Klienty[k].value = Cardinality(CodesOf(RowsFor(T.Klienty[k].month_label)))

\* C3 witness: two customers last seen in May and June 2024 share the quarter
\* row "C2 2024": it sums both uploaded rows (1 + 15) and counts two customers.
C3_Witness ==
    /\ BuilderReturned
    /\ Len(df_upload.rows) = 2
    /\ KeptRows = {1, 2}
    /\ \E L \in PeriodLabels :
          /\ MatchedRows(L) = {1, 2}
          /\ MonthRows(month_label(Ts(2024, 5, 20))) # {}
          /\ MonthRows(month_label(Ts(2024, 6, 1))) # {}
          /\ HasRow(bld_result.tables.Prodazhi, L, 16)
          /\ HasRow(bld_result.tables.Klienty, L, 2)

\* C4: once the builder has returned, each of its four tables has exactly one
\* row per label of the same set: the period labels with at least one matched
\* row, the new-customer label iff some kept row is a new customer's, the
\* no-bonus-card label iff some kept row has no code.
C4_FourTablesShareLabels ==
    BuilderReturned =>
        LET T == bld_result.tables
            Exactly(t) == TableLabels(t) = ExpectedLabels /\ Len(t) = Cardinality(ExpectedLabels)
        IN Exactly(T.Prodazhi) /\ Exactly(T.Cheki) /\ Exactly(T.Tovar) /\ Exactly(T.Klienty)

\* C4 witness: a returned sales table holding a row of value 0 beside a row of
\* another label, both labels present in the customer table too.
C4_Witness ==
    /\ BuilderReturned
    /\ Len(bld_result.tables.Prodazhi) = 2
    /\ \E k \in 1..2 : bld_result.tables.Prodazhi[k].value = 0
    /\ LABEL_NEW_CLIENTS \in TableLabels(bld_result.tables.Klienty)
    /\ LABEL_NO_BONUS_CARD \in TableLabels(bld_result.tables.Klienty)

\* Absolute value.
Abs(x) == IF x < 0 THEN -x ELSE x

\* p tenths of a percent is value / total * 100 rounded to one decimal
\* (total # 0): no tenth is nearer, and of two equally near tenths p is the even.
IsRoundedPct(p, value, total) ==
    /\ 2 * Abs(p * total - 1000 * value) <= Abs(total)
    /\ 2 * Abs(p * total - 1000 * value) = Abs(total) => p % 2 = 0

\* The rows of t other than the no-bonus-card row.
WithoutNoBk(t) == Mask(t, {k \in 1..Len(t) : t[k].month_label # LABEL_NO_BONUS_CARD})

\* C5: once the builder has returned, the customer table holds, whenever some
\* kept row has no code, the no-bonus-card row with value 0 and pct 0, and the pct
\* of its other rows is taken against the sum of the period and new-customer
\* values only; in the three sum tables pct is taken against the sum of all rows
\* present, the no-bonus-card row included (totals that are positive; see C6 for
\* the others).
C5_CustomerTableLeavesNoBkOut ==
    BuilderReturned =>
        LET T == bld_result.tables
            K == T.Klienty
            Against(t, total) ==
                total > 0 => \A k \in 1..Len(t) : IsRoundedPct(t[k].pct, t[k].value, total)
        IN /\ NoCodeRows # {} => HasRow(K, LABEL_NO_BONUS_CARD, 0)
           /\ \A k \in 1..Len(K) :
                 K[k].month_label = LABEL_NO_BONUS_CARD => K[k].value = 0 /\ K[k].pct = 0
           /\ Against(WithoutNoBk(K), SumValue(WithoutNoBk(K)))
           /\ Against(T.Prodazhi, SumValue(T.Prodazhi))
           /\ Against(T.Cheki, SumValue(T.Cheki))
           /\ Against(T.Tovar, SumValue(T.Tovar))

\* C5 witness: a row without a code (receipts 1) beside a customer's row
\* (receipts 2): the customer table shows the customer at 100.0 and the
\* no-bonus-card row at 0 / 0.0, the receipts table shows 66.7 and 33.3.
C5_Witness ==
    /\ BuilderReturned
    /\ NoCodeRows # {}
    /\ \E k \in 1..Len(bld_result.tables.Klienty) :
          /\ bld_result.tables.Klienty[k].month_label # LABEL_NO_BONUS_CARD
          /\ bld_result.tables.Klienty[k].pct = 1000
    /\ \E k \in 1..Len(bld_result.tables.Cheki) :
          /\ bld_result.tables.Cheki[k].month_label = LABEL_NO_BONUS_CARD
          /\ bld_result.tables.Cheki[k].pct = 333
    /\ \E k \in 1..Len(bld_result.tables.Cheki) : bld_result.tables.Cheki[k].pct = 667

\* The codes listed under label L of the index, and whether none is listed twice.
Listed(L) == SeqRange(bld_result.index[L])
ListedOnce(L) == Cardinality(Listed(L)) = Len(bld_result.index[L])

\* The builder went past its early exits: some uploaded row is kept (the
\* uploads of this specification hold the required columns).
NoEarlyExit == BuilderReturned /\ KeptRows # {}

\* C8 as stated: without an early exit the index has an entry for every period
\* label with matched rows, listing exactly the distinct codes of those rows, an
\* entry for "new customers" listing exactly the distinct non-blank codes that
\* match no last-purchase entry, and an entry for "customers without loyalty
\* card" that is empty.
C8_AsClaimed ==
    NoEarlyExit =>
        /\ DOMAIN bld_result.index = PeriodLabels \cup {LABEL_NEW_CLIENTS, LABEL_NO_BONUS_CARD}
        /\ \A L \in PeriodLabels : Listed(L) = CodesOf(MatchedRows(L)) /\ ListedOnce(L)
        /\ Listed(LABEL_NEW_CLIENTS) = CodesOf(NewRows) /\ ListedOnce(LABEL_NEW_CLIENTS)
        /\ bld_result.index[LABEL_NO_BONUS_CARD] = <<>>

\* C8 (amended): without an early exit the index has an entry for every period
\* label with matched rows, listing exactly the distinct codes of those rows; an
\* entry for "new customers" only when some kept row has a non-blank code that
\* matches no last-purchase entry, then listing exactly those distinct codes;
\* and always an empty entry for "customers without loyalty card".  It has no
\* other entry, so no blank code and no code of another partition is listed.
C8_IndexListsPartitionCodes ==
    NoEarlyExit =>
        /\ DOMAIN bld_result.index =
              PeriodLabels \cup (IF NewRows # {} THEN {LABEL_NEW_CLIENTS} ELSE {})
                           \cup {LABEL_NO_BONUS_CARD}
        /\ \A L \in PeriodLabels : Listed(L) = CodesOf(MatchedRows(L)) /\ ListedOnce(L)
        /\ NewRows # {} =>
              Listed(LABEL_NEW_CLIENTS) = CodesOf(NewRows) /\ ListedOnce(LABEL_NEW_CLIENTS)
        /\ bld_result.index[LABEL_NO_BONUS_CARD] = <<>>

\* C8 witness: a returned index with a period entry and a new-customer entry of
\* one code each, beside the empty no-bonus-card entry.
C8_Witness ==
    /\ NoEarlyExit
    /\ PeriodLabels # {}
    /\ NewRows # {}
    /\ Len(bld_result.index[LABEL_NEW_CLIENTS]) = 1
    /\ \E L \in PeriodLabels : Len(bld_result.index[L]) = 1
    /\ bld_result.index[LABEL_NO_BONUS_CARD] = <<>>

(***************************************************************************)
(* Claims about the percentages of both entry points (SpecPct).            *)
(***************************************************************************)
AggregatorReturned == "contribution_from_upload" \in called

RECURSIVE SumPct(_)
SumPct(t) == IF t = <<>> THEN 0 ELSE Head(t).pct + SumPct(Tail(t))

\* The percentage base of a table: the sum of its values, in the customer table
\* without the no-bonus-card row.
SumBase(t) == SumValue(t)
CustomerBase(t) == SumValue(WithoutNoBk(t))

\* Every pct of t is value / total * 100 rounded to one decimal.
AllRounded(t, total) == \A k \in 1..Len(t) : IsRoundedPct(t[k].pct, t[k].value, total)
\* Every pct of t is 0.
AllZero(t) == \A k \in 1..Len(t) : t[k].pct = 0

\* C6 as stated: in every table of the aggregator and of the builder each pct is
\* value / total * 100 rounded to one decimal, and all pct are 0 when the total
\* is 0.
C6_AsClaimed ==
    LET Claimed(t, total) == IF total = 0 THEN AllZero(t) ELSE AllRounded(t, total)
        T == bld_result.tables
    IN /\ AggregatorReturned => Claimed(agg_result.table, SumBase(agg_result.table))
       /\ BuilderReturned =>
             /\ Claimed(T.Prodazhi, SumBase(T.Prodazhi))
             /\ Claimed(T.Cheki, SumBase(T.Cheki))
             /\ Claimed(T.Tovar, SumBase(T.Tovar))
             /\ Claimed(T.Klienty, CustomerBase(T.Klienty))

\* C6 (amended): in the aggregator's table each pct is value / total * 100
\* rounded to one decimal when the total is not 0, and 0 when it is 0; in the
\* builder's tables each pct is that rounded share when the total is positive,
\* and 0 when the total is 0 or negative.
C6_PctIsRoundedShare ==
    LET Agg(t, total) == IF total = 0 THEN AllZero(t) ELSE AllRounded(t, total)
        Bld(t, total) == IF total > 0 THEN AllRounded(t, total) ELSE AllZero(t)
        T == bld_result.tables
    IN /\ AggregatorReturned => Agg(agg_result.table, SumBase(agg_result.table))
       /\ BuilderReturned =>
             /\ Bld(T.Prodazhi, SumBase(T.Prodazhi))
             /\ Bld(T.Cheki, SumBase(T.Cheki))
             /\ Bld(T.Tovar, SumBase(T.Tovar))
             /\ Bld(T.Klienty, CustomerBase(T.Klienty))

\* C6 witness: both entry points returned on sales of 1 and 15 in two months:
\* 6.25 % rounds to 6.2 and 93.75 % to 93.8 in both tables.
C6_Witness ==
    /\ AggregatorReturned /\ BuilderReturned
    /\ \E k \in 1..Len(agg_result.table) : agg_result.table[k].pct = 62
    /\ \E k \in 1..Len(agg_result.table) : agg_result.table[k].pct = 938
    /\ \E k \in 1..Len(bld_result.tables.Prodazhi) : bld_result.tables.Prodazhi[k].pct = 62
    /\ \E k \in 1..Len(bld_result.tables.Prodazhi) : bld_result.tables.Prodazhi[k].pct = 938

\* The pct of t sum to 100 within 0.1 per row.
NearHundred(t) == Abs(SumPct(t) - 1000) <= Len(t)

\* C7 as stated: the pct of every non-empty table sum to 100 within 0.1 per
\* row, but for the customer table when it holds the no-bonus-card row.
C7_AsClaimed ==
    LET Claimed(t) == t # <<>> => NearHundred(t)
        T == bld_result.tables
    IN /\ AggregatorReturned => Claimed(agg_result.table)
       /\ BuilderReturned =>
             /\ Claimed(T.Prodazhi) /\ Claimed(T.Cheki) /\ Claimed(T.Tovar)
             /\ LABEL_NO_BONUS_CARD \notin TableLabels(T.Klienty) => Claimed(T.Klienty)

\* C7 (amended): the pct of a non-empty table sum to 100 within 0.1 per row
\* whenever its percentage base is positive (for the aggregator: not 0), the
\* customer table with its no-bonus-card row included; with any other base the
\* pct sum to 0.
C7_PctSumNearHundred ==
    LET Agg(t, total) == t # <<>> => IF total # 0 THEN NearHundred(t) ELSE SumPct(t) = 0
        Bld(t, total) == t # <<>> => IF total > 0 THEN NearHundred(t) ELSE SumPct(t) = 0
        T == bld_result.tables
    IN /\ AggregatorReturned => Agg(agg_result.table, SumBase(agg_result.table))
       /\ BuilderReturned =>
             /\ Bld(T.Prodazhi, SumBase(T.Prodazhi))
             /\ Bld(T.Cheki, SumBase(T.Cheki))
             /\ Bld(T.Tovar, SumBase(T.Tovar))
             /\ Bld(T.Klienty, CustomerBase(T.Klienty))

\* C7 witness: both entry points returned; the receipts table shares 33.3 and
\* 66.7 between a customer's row and the no-bonus-card row, and the customer
\* table, holding that row too, sums to 100.
C7_Witness ==
    /\ AggregatorReturned /\ BuilderReturned
    /\ agg_result.table # <<>>
    /\ \E k \in 1..Len(bld_result.tables.Cheki) :
          /\ bld_result.tables.Cheki[k].month_label = LABEL_NO_BONUS_CARD
          /\ bld_result.tables.Cheki[k].pct \in {333, 667}
    /\ SumPct(bld_result.tables.Cheki) = 1000
    /\ LABEL_NO_BONUS_CARD \in TableLabels(bld_result.tables.Klienty)
    /\ SumPct(bld_result.tables.Klienty) = 1000

(***************************************************************************)
(* Claims about uploads lacking columns (SpecSchema).                      *)
(***************************************************************************)
\* C9: an upload lacking value_column or client_code_column makes the
\* aggregator return the empty table, and an upload lacking any of the five
\* required columns makes the builder return four empty tables and an empty
\* index; neither call raises.
C9_MissingColumnsGiveEmptyResult ==
    /\ (/\ AggregatorReturned
        /\ (value_column \notin df_upload.cols \/ client_code_column \notin df_upload.cols))
          => agg_result = Returned(empty_df)
    /\ (/\ BuilderReturned
        /\ \E c \in UPLOAD_REQUIRED_COLUMNS : c \notin df_upload.cols)
          => bld_result = ReturnedTables(empty_tables, <<>>)

\* C9 witness: both entry points returned empty results, without raising, for
\* a one-row upload that lacks only the items column resp. the requested code
\* column, against a non-empty last-purchase table that has no date column.
C9_Witness ==
    /\ AggregatorReturned /\ BuilderReturned
    /\ Len(df_upload.rows) = 1
    /\ UPLOAD_REQUIRED_COLUMNS \ df_upload.cols = {UPLOAD_COL_ITEMS}
    /\ value_column \in df_upload.cols
    /\ client_code_column \notin df_upload.cols
    /\ df_last_purchase.rows # <<>>
    /\ COL_LAST_DATE \notin df_last_purchase.cols
    /\ agg_result.kind = "ok" /\ agg_result.table = empty_df
    /\ bld_result.kind = "ok" /\ bld_result.tables = empty_tables /\ bld_result.index = <<>>

(***************************************************************************)
(* Claims about the category filter (SpecFilter).                          *)
(***************************************************************************)
\* The builder's result on the uploaded rows I alone, without a filter.
BuilderOn(I) ==
    contribution_tables_from_upload(Frame(df_upload.cols, Mask(df_upload.rows, I)),
                                    df_last_purchase, FilterNone, sort_ties)

\* Uploaded row i passes the filter when a list, the empty one included, keeps
\* exactly the rows with a category column among its values.
KeptAsClaimed(i) ==
    LET row == df_upload.rows[i]
        wanted == {strip(category_filter.vals[k]) : k \in 1..Len(category_filter.vals)}
    IN \/ category_filter.kind = "none"
       \/ category_filter.kind = "str" /\ strip(astype_str(row[COL_GROUP])) \in wanted
       \/ /\ category_filter.kind = "list"
          /\ \E col \in SeqRange(CATEGORY_COLUMNS) \cap df_upload.cols :
                strip(astype_str(row[col])) \in wanted

\* C10 as stated: the builder's result is its unfiltered result on the rows
\* KeptAsClaimed keeps, four empty tables when there are none.  An empty list
\* keeps no row under this reading, and the builder keeps them all.
C10_AsClaimed ==
    LET I == {i \in 1..Len(df_upload.rows) : KeptAsClaimed(i)}
    IN BuilderReturned =>
          /\ bld_result = BuilderOn(I)
          /\ I = {} => bld_result.tables = empty_tables

\* C10 (amended): the builder's result is its unfiltered result on the kept
\* rows, where no filter and the empty list keep every row, a string keeps the
\* rows whose primary category, read as text and trimmed, equals the trimmed
\* string, and a non-empty list keeps the rows with one of the category columns
\* present, read as text and trimmed, among its trimmed values; with no row
\* kept the builder returns four empty tables.
C10_FilterKeepsMatchingRows ==
    BuilderReturned =>
       /\ bld_result = BuilderOn(KeptRows)
       /\ KeptRows = {} => bld_result.tables = empty_tables

\* C10 witness: the list ["X"] kept a row of category "Y" through its product
\* "X" and dropped a row of category "Y" and product "Z"; the sales table holds
\* the kept row's sales alone.
C10_Witness ==
    /\ BuilderReturned
    /\ category_filter = FilterList(<< <<88>> >>)
    /\ "Tovar" \in df_upload.cols
    /\ Len(df_upload.rows) = 2
    /\ df_upload.rows[1][COL_GROUP] = <<89>> /\ df_upload.rows[1]["Tovar"] = <<88>>
    /\ df_upload.rows[2][COL_GROUP] = <<89>> /\ df_upload.rows[2]["Tovar"] = <<90>>
    /\ KeptRows = {1}
    /\ Len(bld_result.tables.Prodazhi) = 1
    /\ bld_result.tables.Prodazhi[1].value = df_upload.rows[1][UPLOAD_COL_SALES]

(***************************************************************************)
(* Claims about the filter as a no-op (SpecNoOp).                          *)
(***************************************************************************)
\* The builder's result on the whole upload without a filter.
Unfiltered ==
    contribution_tables_from_upload(df_upload, df_last_purchase, FilterNone, sort_ties)

\* The filter lists every value offered for selection.
AllObserved == category_filter = FilterList(category_options(df_upload))

\* Every uploaded row has a value in one of the category columns present.
EveryRowHasCategory ==
    \A i \in 1..Len(df_upload.rows) :
        \E col \in SeqRange(CATEGORY_COLUMNS) \cap df_upload.cols :
            ~isna(df_upload.rows[i][col])

\* C11 as stated: without a filter, with the empty list and with the list of
\* all observed category values the builder returns the same tables and index.
C11_AsClaimed ==
    (/\ BuilderReturned
     /\ (category_filter \in {FilterNone, FilterList(<<>>)} \/ AllObserved))
       => bld_result = Unfiltered

\* C11 (amended): without a filter and with the empty list the builder returns
\* the same tables and index; with the list of all observed category values it
\* returns them too, provided every uploaded row has a value in one of the
\* category columns present.
C11_FilterNoOp ==
    BuilderReturned =>
       /\ category_filter \in {FilterNone, FilterList(<<>>)} => bld_result = Unfiltered
       /\ (AllObserved /\ EveryRowHasCategory) => bld_result = Unfiltered

\* C11 witness: the list of the two observed categories "X" and "Y", taken
\* from rows " X " and "Y", kept both rows and gave the unfiltered two-row
\* sales total.
C11_Witness ==
    /\ BuilderReturned
    /\ category_filter = FilterList(<< <<88>>, <<89>> >>)
    /\ AllObserved /\ EveryRowHasCategory
    /\ df_upload.cols = UPLOAD_REQUIRED_COLUMNS
    /\ Len(df_upload.rows) = 2
    /\ df_upload.rows[1][COL_GROUP] = <<32, 88, 32>>
    /\ df_upload.rows[2][COL_GROUP] = <<89>>
    /\ bld_result = Unfiltered
    /\ Len(bld_result.tables.Prodazhi) = 1
    /\ bld_result.tables.Prodazhi[1].value
          = df_upload.rows[1][UPLOAD_COL_SALES] + df_upload.rows[2][UPLOAD_COL_SALES]

(***************************************************************************)
(* Claims about the labeler (SpecLabel).                                   *)
(***************************************************************************)
Labelled == "_add_recency_month" \in called

\* The year in four digits.
FourDigits(y) ==
    <<48 + (y \div 1000), 48 + ((y \div 100) % 10), 48 + ((y \div 10) % 10), 48 + (y % 10)>>

\* The quarter of month mo: floor((mo - 1) / 3) + 1.
QuarterOf(mo) == IF mo <= 3 THEN 1 ELSE IF mo <= 6 THEN 2 ELSE IF mo <= 9 THEN 3 ELSE 4

\* The month name, a space and the year.
MonthLabelOf(d) == MONTH_NAMES[d.m] \o <<32>> \o FourDigits(d.y)

\* Every labelled row has the claimed month label, and as period label the
\* given letter, the quarter, a space and the year when the year is 2024, the
\* month label otherwise.
LabelsWith(letter) ==
    Labelled =>
       \A i \in 1..Len(labelled.rows) :
          LET row == labelled.rows[i]
              d == row[COL_LAST_DATE]
          IN /\ row["month_label"] = MonthLabelOf(d)
             /\ row["period_label"] =
                   IF d.y = 2024
                   THEN letter \o <<48 + QuarterOf(d.m)>> \o <<32>> \o FourDigits(d.y)
                   ELSE MonthLabelOf(d)

\* C12 as stated: the month label is the month name, a space and the 4-digit
\* year; the period label is "Q<quarter> <year>" for 2024 and the month label
\* for any other year.
C12_AsClaimed == LabelsWith(<<81>>)

\* C12 (amended): the month label is the month name, a space and the 4-digit
\* year; the period label is "C<quarter> <year>", with the Latin letter C, for
\* 2024 and the month label for any other year.
C12_LabelsOfValidDate == LabelsWith(<<67>>)

\* C12 witness: 2024-05-20 was labelled "C2 2024".
C12_Witness ==
    /\ Labelled
    /\ Len(labelled.rows) = 1
    /\ labelled.rows[1][COL_LAST_DATE] = Ts(2024, 5, 20)
    /\ labelled.rows[1]["month_label"] = MONTH_NAMES[5] \o <<32, 50, 48, 50, 52>>
    /\ labelled.rows[1]["period_label"] = <<67, 50, 32, 50, 48, 50, 52>>

(***************************************************************************)
(* Claims about the order of the rows (SpecPct).                           *)
(***************************************************************************)
\* Label L1 comes before label L2 ahead of sorting: the grouped labels in
\* ascending order, then the new-customer row, then the no-bonus-card row.
Precedes(L1, L2) ==
    IF L1 = LABEL_NO_BONUS_CARD THEN FALSE
    ELSE IF L2 = LABEL_NO_BONUS_CARD THEN TRUE
    ELSE IF L1 = LABEL_NEW_CLIENTS THEN FALSE
    ELSE IF L2 = LABEL_NEW_CLIENTS THEN TRUE
    ELSE StrLess(L1, L2)

\* Consecutive rows of t descend in value.
Descending(t) == \A k \in 1..(Len(t) - 1) : t[k].value >= t[k + 1].value

\* Consecutive rows of t with equal values keep their order from before sorting.
TiesKeepOrder(t) ==
    \A k \in 1..(Len(t) - 1) :
        t[k].value = t[k + 1].value => Precedes(t[k].month_label, t[k + 1].month_label)

LastRecordOf(code) ==
    CHOOSE i \in ValidOf(code) :
        \A k \in ValidOf(code) :
            LET di == _parse_date(SheetRows[i][COL_DATE])
                dk == _parse_date(SheetRows[k][COL_DATE])
            IN DateLess(dk, di) \/ (dk = di /\ k <= i)

\* C14 as stated: for every customer the category of the output row is the
\* category of the record carrying the maximum date, the latest in input order
\* when several share that date, also when that category is missing.
C14_AsClaimed ==
    "get_last_purchase_table" \in called =>
        \A j \in 1..Len(last_purchase.rows) :
            LET code == last_purchase.rows[j][COL_CLIENT_CODE]
            IN last_purchase.rows[j][COL_GROUP] = SheetRows[LastRecordOf(code)][COL_GROUP]

(***************************************************************************)
(* Claims about repeated calls of the builder (SpecSession).               *)
(***************************************************************************)
\* Calls i and j of the builder had identical arguments.
SameArguments(i, j) ==
    /\ bld_calls[i].df_upload = bld_calls[j].df_upload
    /\ bld_calls[i].df_last_purchase = bld_calls[j].df_last_purchase
    /\ bld_calls[i].category_filter = bld_calls[j].category_filter

OneRowPerCode ==
    \A i, j \in 1..Len(df_last_purchase.rows) :
        df_last_purchase.rows[i][COL_CLIENT_CODE] = df_last_purchase.rows[j][COL_CLIENT_CODE]
            => i = j

\* The kept rows with a matched code, whatever the period.
AllMatchedRows == UNION {MatchedRows(L) : L \in PeriodLabels}

\* C16: with at most one last-purchase row per customer code, the no-code,
\* new-customer and matched rows are pairwise disjoint and cover the kept rows;
\* the values of each sum table add up to that metric's sum over the kept rows,
\* and the values of the customer table add up to the number of distinct
\* non-blank customer codes of the kept rows.
C16_TotalsConserved ==
    (BuilderReturned /\ OneRowPerCode) =>
        LET T == bld_result.tables
        IN /\ NoCodeRows \cup NewRows \cup AllMatchedRows = KeptRows
           /\ NoCodeRows \cap NewRows = {}
           /\ NoCodeRows \cap AllMatchedRows = {}
           /\ NewRows \cap AllMatchedRows = {}
           /\ \A L1, L2 \in PeriodLabels : L1 # L2 => MatchedRows(L1) \cap MatchedRows(L2) = {}
           /\ SumValue(T.Prodazhi) = UploadSum(KeptRows, UPLOAD_COL_SALES)
           /\ SumValue(T.Cheki) = UploadSum(KeptRows, UPLOAD_COL_RECEIPTS)
           /\ SumValue(T.Tovar) = UploadSum(KeptRows, UPLOAD_COL_ITEMS)
           /\ SumValue(T.Klienty) = Cardinality(CodesOf(KeptRows \ NoCodeRows))

\* C16 witness: of two uploaded rows with sales 1 and 15, one is a matched
\* customer's and one a new customer's; the sales table's two rows add up to 16
\* and the customer table's to 2.
C16_Witness ==
    /\ BuilderReturned /\ OneRowPerCode
    /\ KeptRows = {1, 2}
    /\ Cardinality(AllMatchedRows) = 1 /\ Cardinality(NewRows) = 1
    /\ Len(bld_result.tables.Prodazhi) = 2
    /\ UploadSum(KeptRows, UPLOAD_COL_SALES) = 16
    /\ SumValue(bld_result.tables.Prodazhi) = 16
    /\ SumValue(bld_result.tables.Klienty) = 2

====
